---------------------------- MODULE Spec2Model ----------------------------
(* Model of extract_gh_repo_issues (src/run.py): the loop over the         *)
(* configured repositories and their issues, the record that is built for  *)
(* every issue, and the handling of RateLimitExceededException (save the   *)
(* collection, compute the wait, sleep, go on).                            *)
EXTENDS Integers, Sequences, FiniteSets, TLC

VARIABLES
    args,         \* the namespace parse_args returns; <<>> is None, <<v>> a value
    params,       \* gh_org, gh_token and ds_path as passed in line 118
    gh_repos,     \* parameter gh_repos: the repository names, in order
    issue_count,  \* remote data: number of issues each repository yields
    all_issues,   \* the in-memory collection (line 61)
    origin,       \* history: <<repository position, yield index>> of every record
    r,            \* position in gh_repos of the repository being processed
    i,            \* enumerate index of the issue at hand / to be yielded next
    loc,          \* place in the loop: "lookup", "iterate" or "body"
    phase,        \* RUNNING, RATE_LIMITED, SLEEPING, DONE or FAILED
    disk,         \* content at ds_path: <<>> when absent, else <<snapshot>>
    writes,       \* history: every snapshot saved to ds_path, in order
    reset,        \* rate_limit.raw_data["core"]["reset"] as last read
    now,          \* time.time() as last read
    wait_time,    \* local wait_time (line 101)
    raised,       \* outcome of the last call that can raise
    error,        \* the exception that left the function, "none" otherwise
    throttled,    \* history: positions whose comment fetch was rate limited
    segment,      \* history: positions requested since the start / last resume
    saved_at,     \* history: the paths a snapshot was saved to
    api_called,   \* history: a call to the remote API has been made
    returned      \* <<>> until the function returns, then <<dataset>>

vars == <<args, params, gh_repos, issue_count, all_issues, origin, r, i, loc,
          phase, disk, writes, reset, now, wait_time, raised, error, throttled,
          segment, saved_at, api_called, returned>>

-----------------------------------------------------------------------------
(* Bounds *)
MaxRepos == 2
MaxIssues == 5
MaxTotal == 6
MaxSkew == 4
MaxTotalMain == 2

RepoNames == {"widgets", "gears"}
RepoLists == UNION {[1..n -> RepoNames] : n \in 1..MaxRepos}
Optional(S) == {<<>>} \cup {<<v>> : v \in S}
NowValues == {1000, 1002}
ResetValues == (1000 - MaxSkew - 3)..(1000 + 1) \cup {1000 + 120}

RateLimit == "RateLimitExceededException"
OtherError == "OtherError"
Outcomes == {"ok", RateLimit, OtherError}

-----------------------------------------------------------------------------
(* Pure helpers *)
Max(a, b) == IF a >= b THEN a ELSE b

IsPrefix(s, t) == Len(s) <= Len(t) /\ SubSeq(t, 1, Len(s)) = s

Digit == <<"0", "1", "2", "3", "4", "5", "6", "7", "8", "9">>

Pad2(n) == Digit[((n \div 10) % 10) + 1] \o Digit[(n % 10) + 1]

Pad4(n) == Pad2(n \div 100) \o Pad2(n % 100)

\* datetime.strftime("%m-%d-%Y %H:%M:%S")
Strftime(dt) ==
    Pad2(dt.month) \o "-" \o Pad2(dt.day) \o "-" \o Pad4(dt.year) \o " " \o
    Pad2(dt.hour) \o ":" \o Pad2(dt.minute) \o ":" \o Pad2(dt.second)

\* variant of lines 76-78: the delimiter closes every body
RECURSIVE JoinTrailing(_)
JoinTrailing(bodies) ==
    IF Len(bodies) = 0 THEN ""
    ELSE bodies[1] \o "<|||||>" \o JoinTrailing(Tail(bodies))

\* "<|||||>".join(bodies)
RECURSIVE Join(_)
Join(bodies) ==
    IF Len(bodies) = 0 THEN ""
    ELSE IF Len(bodies) = 1 THEN bodies[1]
    ELSE bodies[1] \o "<|||||>" \o Join(Tail(bodies))

-----------------------------------------------------------------------------
(* The remote collaborator's data: the issue a repository yields at       *)
(* enumerate index n, and the bodies of its comments.                      *)
Issue(repo_name, n) ==
    [number     |-> n + 1,
     state      |-> IF n % 2 = 0 THEN "open" ELSE "closed",
     title      |-> repo_name \o " issue " \o Pad2(n + 1),
     body       |-> IF n % 3 = 2 THEN <<>> ELSE <<"text " \o Pad2(n + 1)>>,
     created_at |-> [year |-> 2023, month |-> 1 + (n % 12), day |-> 9,
                     hour |-> 8, minute |-> 5, second |-> n % 60],
     closed_at  |-> IF n % 2 = 0 THEN <<>>
                    ELSE <<[year |-> 2024, month |-> 1 + (n % 12), day |-> 10,
                            hour |-> 18, minute |-> 30, second |-> n % 60]>>]

CommentBodies(repo_name, n) == SubSeq(<<"a", "b", "c">>, 1, n % 4)

-----------------------------------------------------------------------------
(* The code's own computations *)

\* variant of lines 80-89: closed_at is read from the issue's closure time
IssueDataClosedAt(repo_name, issue, comments) ==
    [repo       |-> repo_name,
     number     |-> issue.number,
     state      |-> issue.state,
     title      |-> issue.title,
     body       |-> issue.body,
     created_at |-> Strftime(issue.created_at),
     closed_at  |-> IF issue.closed_at = <<>> THEN ""
                    ELSE Strftime(issue.closed_at[1]),
     comments   |-> comments]

\* lines 80-89
IssueData(repo_name, issue, comments) ==
    [repo       |-> repo_name,
     number     |-> issue.number,
     state      |-> issue.state,
     title      |-> issue.title,
     body       |-> issue.body,
     created_at |-> Strftime(issue.created_at),
     closed_at  |-> Strftime(issue.created_at),
     comments   |-> comments]

\* lines 76-89: the record built for the issue at index n of repo_name
RecordOf(repo_name, n) ==
    IssueData(repo_name, Issue(repo_name, n), Join(CommentBodies(repo_name, n)))

\* variants of line 91: insert at the front; rebind the list to the one record
AppendRecordFront(coll, rec) == <<rec>> \o coll

AppendRecordOverwrite(coll, rec) == <<rec>>

\* line 91: list.append
AppendRecord(coll, rec) == Append(coll, rec)

\* variant of line 74: the index handed out does not advance
NextIndexSame(n) == n

\* line 74: enumerate hands out consecutive indexes
NextIndex(n) == n + 1

\* variant of line 93: a bare except
CaughtAll(exc) == TRUE

\* line 93: the except clause
Caught(exc) == exc = RateLimit

\* variant of lines 97-98: the new rows are added to the snapshot on disk
SaveToDiskAppending(coll, old) ==
    IF old = <<>> THEN <<coll>> ELSE <<old[1] \o coll>>

\* lines 97-98: Dataset.from_list(all_issues).save_to_disk(ds_path)
SaveToDisk(coll, old) == <<coll>>

\* line 101
WaitTime(resetEpoch, t) == (resetEpoch - t) + 3

\* variant of lines 108-110: the dataset is reloaded from ds_path
ResultReloaded(coll, saved) == IF saved = <<>> THEN <<>> ELSE saved[1]

\* lines 108-110: the dataset returned
Result(coll, saved) == coll

\* the number of issues the collaborator yields over the whole list
RECURSIVE SumCounts(_, _, _)
SumCounts(repos, count, k) ==
    IF k = 0 THEN 0 ELSE SumCounts(repos, count, k - 1) + count[repos[k]]

TotalIssues == SumCounts(gh_repos, issue_count, Len(gh_repos))

\* lines 17-25: no argument is required, a missing one is None
ParseArgs ==
    [org : Optional({"acme"}), repos : Optional(RepoLists),
     gh_token : Optional({"token"}), ds_path : Optional({"./progress"})]

\* the command lines that give the organization, the repositories and the
\* token, and leave the checkpoint path to its default
CompleteArgs == {a \in ParseArgs : /\ a.org # <<>> /\ a.repos # <<>>
                                   /\ a.gh_token # <<>> /\ a.ds_path = <<>>}

\* line 118: the keyword arguments of the call
Main(a) ==
    [gh_org |-> a.org, gh_repos |-> a.repos, gh_token |-> a.gh_token,
     ds_path |-> "./hf_repo_issues"]

-----------------------------------------------------------------------------
\* the state at the entry of extract_gh_repo_issues, called with arguments a
Start(a) ==
    /\ args = a
    /\ params = [gh_org |-> Main(a).gh_org, gh_token |-> Main(a).gh_token,
                 ds_path |-> Main(a).ds_path]
    /\ gh_repos = IF Main(a).gh_repos = <<>> THEN <<>> ELSE Main(a).gh_repos[1]
    /\ issue_count \in [RepoNames -> 0..MaxIssues]
    /\ all_issues = <<>>
    /\ segment = <<>>
    /\ saved_at = {}
    /\ api_called = FALSE
    /\ origin = <<>>
    /\ r = 1
    /\ i = 0
    /\ loc = "lookup"
    /\ phase = "RUNNING"
    /\ disk = <<>>
    /\ writes = <<>>
    /\ reset = 0
    /\ now = 0
    /\ wait_time = 0
    /\ raised = "ok"
    /\ error = "none"
    /\ throttled = {}
    /\ returned = <<>>

Init ==
    /\ \E a \in CompleteArgs : Start(a)
    /\ TotalIssues <= MaxTotal

\* every command line, on small repositories
InitMain ==
    /\ \E a \in ParseArgs : Start(a)
    /\ TotalIssues <= MaxTotalMain

\* an exception leaves extract_gh_repo_issues
Propagate(exc) ==
    /\ phase' = "FAILED"
    /\ error' = exc

\* lines 63-71: next repo_name, gh.get_repo, repo.get_issues, totalCount
\* Line 63 iterates over None: TypeError.  Line 64: Auth.Token asserts that
\* the token is a non-empty string.  Line 69 formats gh_org into the name it
\* asks the API for, None included ("None/widgets").
GetRepo ==
    /\ phase = "RUNNING" /\ loc = "lookup"
    /\ \E outcome \in Outcomes :
          IF args.repos = <<>>
          THEN /\ raised' = "TypeError"
               /\ Propagate("TypeError")
               /\ UNCHANGED <<loc, i, api_called>>
          ELSE IF params.gh_token = <<>>
          THEN /\ raised' = "AssertionError"
               /\ Propagate("AssertionError")
               /\ UNCHANGED <<loc, i, api_called>>
          ELSE /\ api_called' = TRUE
               /\ raised' = outcome
               /\ IF outcome = "ok"
                  THEN /\ loc' = "iterate"
                       /\ i' = 0
                       /\ UNCHANGED <<phase, error>>
                  ELSE /\ Propagate(outcome)
                       /\ UNCHANGED <<loc, i>>
    /\ UNCHANGED <<args, params, gh_repos, issue_count, all_issues, origin, r,
                   disk, writes, reset, now, wait_time, throttled, segment,
                   saved_at, returned>>

\* line 74: the iterator yields the issue at index i
NextIssue ==
    /\ phase = "RUNNING" /\ loc = "iterate"
    /\ i < issue_count[gh_repos[r]]
    /\ \E outcome \in Outcomes :
          /\ raised' = outcome
          /\ IF outcome = "ok"
             THEN /\ loc' = "body"
                  /\ UNCHANGED <<phase, error>>
             ELSE /\ Propagate(outcome)
                  /\ UNCHANGED loc
    /\ UNCHANGED <<args, params, gh_repos, issue_count, all_issues, origin, r,
                   i, disk, writes, reset, now, wait_time, throttled, segment,
                   saved_at, api_called, returned>>

\* line 74 -> line 63: the iterator is exhausted, on to the next repository
NextRepo ==
    /\ phase = "RUNNING" /\ loc = "iterate"
    /\ i >= issue_count[gh_repos[r]]
    /\ r < Len(gh_repos)
    /\ r' = r + 1
    /\ loc' = "lookup"
    /\ UNCHANGED <<args, params, gh_repos, issue_count, all_issues, origin, i,
                   phase, disk, writes, reset, now, wait_time, raised, error,
                   throttled, segment, saved_at, api_called, returned>>

\* lines 108-110: the last repository is exhausted
Return ==
    /\ phase = "RUNNING" /\ loc = "iterate"
    /\ i >= issue_count[gh_repos[r]]
    /\ r = Len(gh_repos)
    /\ returned' = <<Result(all_issues, disk)>>
    /\ phase' = "DONE"
    /\ UNCHANGED <<args, params, gh_repos, issue_count, all_issues, origin, r,
                   i, loc, disk, writes, reset, now, wait_time, raised, error,
                   throttled, segment, saved_at, api_called>>

\* lines 75-93: fetch the comments, build the record, append it
ProcessIssue ==
    /\ phase = "RUNNING" /\ loc = "body"
    /\ segment' = Append(segment, <<r, i>>)
    /\ \E outcome \in Outcomes :
          /\ raised' = outcome
          /\ IF outcome = "ok"
             THEN /\ all_issues' = AppendRecord(all_issues, RecordOf(gh_repos[r], i))
                  /\ origin' = AppendRecord(origin, <<r, i>>)
                  /\ i' = NextIndex(i)
                  /\ loc' = "iterate"
                  /\ UNCHANGED <<phase, error, throttled>>
             ELSE IF Caught(outcome)
             THEN /\ phase' = "RATE_LIMITED"
                  /\ throttled' = throttled \cup {<<r, i>>}
                  /\ UNCHANGED <<all_issues, origin, i, loc, error>>
             ELSE /\ Propagate(outcome)
                  /\ UNCHANGED <<all_issues, origin, i, loc, throttled>>
    /\ UNCHANGED <<args, params, gh_repos, issue_count, r, disk, writes, reset,
                   now, wait_time, saved_at, api_called, returned>>

\* lines 94-105: save the progress, read the reset time, compute the wait
HandleRateLimit ==
    /\ phase = "RATE_LIMITED"
    /\ disk' = SaveToDisk(all_issues, disk)
    /\ writes' = Append(writes, disk'[1])
    /\ saved_at' = saved_at \cup {params.ds_path}
    /\ \E resetEpoch \in ResetValues, t \in NowValues :
          /\ reset' = resetEpoch
          /\ now' = t
          /\ wait_time' = WaitTime(resetEpoch, t)
    /\ phase' = "SLEEPING"
    /\ UNCHANGED <<args, params, gh_repos, issue_count, all_issues, origin, r,
                   i, loc, raised, error, throttled, segment, api_called,
                   returned>>

\* variant of line 106: after the sleep the same issue is tried again
SleepRetry ==
    /\ phase = "SLEEPING"
    /\ IF wait_time < 0
       THEN /\ raised' = "ValueError"
            /\ Propagate("ValueError")
            /\ UNCHANGED segment
       ELSE /\ phase' = "RUNNING"
            /\ segment' = <<>>
            /\ UNCHANGED <<raised, error>>
    /\ UNCHANGED <<args, params, gh_repos, issue_count, all_issues, origin, r,
                   i, loc, disk, writes, reset, now, wait_time, throttled,
                   saved_at, api_called, returned>>

\* line 106: time.sleep(wait_time); a negative length raises ValueError
Sleep ==
    /\ phase = "SLEEPING"
    /\ IF wait_time < 0
       THEN /\ raised' = "ValueError"
            /\ Propagate("ValueError")
            /\ UNCHANGED <<i, loc, segment>>
       ELSE /\ phase' = "RUNNING"
            /\ i' = NextIndex(i)
            /\ loc' = "iterate"
            /\ segment' = <<>>
            /\ UNCHANGED <<raised, error>>
    /\ UNCHANGED <<args, params, gh_repos, issue_count, all_issues, origin, r,
                   disk, writes, reset, now, wait_time, throttled, saved_at,
                   api_called, returned>>

Next ==
    \/ GetRepo
    \/ NextIssue
    \/ NextRepo
    \/ Return
    \/ ProcessIssue
    \/ HandleRateLimit
    \/ Sleep

Spec == Init /\ [][Next]_vars

\* the same steps from every command line
SpecMain == InitMain /\ [][Next]_vars

\* the interpreter always takes the next step
FairSpec == Spec /\ WF_vars(Next)

-----------------------------------------------------------------------------
(* Vocabulary of the properties *)

\* positions <<rp, 0>> .. <<rp, n-1>>, in yield order
RECURSIVE IssuesUpTo(_, _)
IssuesUpTo(rp, n) ==
    IF n = 0 THEN <<>> ELSE Append(IssuesUpTo(rp, n - 1), <<rp, n - 1>>)

\* every position of the repositories at list positions 1..k
RECURSIVE ReposUpTo(_)
ReposUpTo(k) ==
    IF k = 0 THEN <<>>
    ELSE ReposUpTo(k - 1) \o IssuesUpTo(k, issue_count[gh_repos[k]])

\* the positions the collaborator yields before position <<rp, n>>
Yielded(rp, n) == ReposUpTo(rp - 1) \o IssuesUpTo(rp, n)

AllYielded == ReposUpTo(Len(gh_repos))

\* the positions of a sequence whose comment fetch was not rate limited
Kept(positions) == SelectSeq(positions, LAMBDA p : p \notin throttled)

RecordsAt(positions) ==
    [k \in 1..Len(positions) |->
        RecordOf(gh_repos[positions[k][1]], positions[k][2])]

\* rate-limit events whose handler has saved the collection
Handled == Cardinality(throttled) - (IF phase = "RATE_LIMITED" THEN 1 ELSE 0)

-----------------------------------------------------------------------------
\* C1: when the comment fetch for issue i is rate limited, the loop resumes
\* after the sleep at the same index i, so issue i is requested again.
C1_ResumeSameIndex ==
    [][phase = "SLEEPING" /\ phase' = "RUNNING" => i' = i /\ r' = r]_vars

\* C2: a run that reaches DONE returns at least one record for every issue
\* yielded: the length of the result is at least the sum of the issue counts.
C2_AtLeastOneRecordPerIssue ==
    phase = "DONE" => Len(returned[1]) >= TotalIssues

\* C3: every handled rate-limit event writes exactly one checkpoint, which
\* replaces the previous one and equals the in-memory collection: the records
\* of all issues processed so far, across repositories, in order.
C3_CheckpointIsCollection ==
    /\ [](Len(writes) = Handled)
    /\ [][phase = "RATE_LIMITED" =>
            /\ Len(writes') = Len(writes) + 1
            /\ disk' = <<all_issues>>
            /\ writes'[Len(writes')] = all_issues
            /\ all_issues' = all_issues
            /\ disk'[1] = RecordsAt(Kept(Yielded(r, i)))]_vars
    /\ [][phase # "RATE_LIMITED" => disk' = disk /\ writes' = writes]_vars

\* throttle after the 3rd of 5 issues of the first repository: 3 records saved
C3_Witness ==
    /\ phase = "SLEEPING"
    /\ r = 1 /\ i = 3 /\ issue_count[gh_repos[1]] = 5
    /\ throttled = {<<1, 3>>}
    /\ Len(disk[1]) = 3

\* C4: a rate-limit signal from the issue-listing side (repository lookup,
\* issue list, total count, iterator) is handled like one from the comment
\* fetch; it never ends the run in FAILED.
C4_ListingRateLimitHandled ==
    ~(phase = "FAILED" /\ error = RateLimit)

\* C5: the duration passed to the sleep is max(0, resetEpoch - now) + 3,
\* never below 3 even when the reset time is in the past.
C5_WaitClamped ==
    phase = "SLEEPING" =>
        wait_time = Max(0, reset - now) + 3 /\ wait_time >= 3

\* C6: without rate-limit events and errors the result holds one record per
\* issue, grouped by repository in the order of the input list.
C6_CompleteAndGrouped ==
    phase = "DONE" /\ throttled = {} =>
        /\ Len(returned[1]) = TotalIssues
        /\ returned[1] = RecordsAt(AllYielded)
        /\ \A a, b \in 1..Len(returned[1]) :
              a < b => origin[a][1] <= origin[b][1]
        /\ \A k \in 1..Len(returned[1]) :
              returned[1][k].repo = gh_repos[origin[k][1]]

\* a repository listed twice has contributed its issues twice
C6_Witness ==
    /\ phase = "DONE" /\ throttled = {}
    /\ Len(gh_repos) = 2 /\ gh_repos[1] = gh_repos[2]
    /\ issue_count[gh_repos[1]] = 2
    /\ Len(returned[1]) = 4

\* C7: an error other than the rate-limit signal propagates unmodified and
\* ends the run in FAILED: no retry, no checkpoint written for it, the
\* checkpoint store left as the last rate-limit event left it.
C7_OtherErrorsPropagate ==
    /\ [](raised \notin {"ok", RateLimit} => phase = "FAILED" /\ error = raised)
    /\ [][phase' = "FAILED" => disk' = disk /\ writes' = writes
                               /\ all_issues' = all_issues]_vars
    /\ [][phase # "FAILED"]_vars

\* an error in the comment fetch after an earlier rate-limit checkpoint
C7_Witness ==
    /\ phase = "FAILED" /\ error = OtherError
    /\ loc = "body"
    /\ disk # <<>> /\ Len(all_issues) > Len(disk[1])

\* C8: the collection is ordered by repository-list position and, within one
\* repository, by the position at which the issue was yielded.
C8_Ordered ==
    /\ Len(origin) = Len(all_issues)
    /\ \A k \in 1..Len(all_issues) :
          all_issues[k] = RecordOf(gh_repos[origin[k][1]], origin[k][2])
    /\ \A a, b \in 1..Len(origin) :
          a < b => /\ origin[a][1] <= origin[b][1]
                   /\ origin[a][1] = origin[b][1] => origin[a][2] < origin[b][2]

\* two repositories and two rate-limit events behind the collection
C8_Witness ==
    /\ Len(all_issues) >= 3
    /\ Cardinality(throttled) >= 2
    /\ origin[1][1] = 1 /\ origin[Len(origin)][1] = 2

\* C9: the value returned is the in-memory collection, not the checkpoint:
\* every checkpoint written is a prefix of it and it includes the records
\* appended after the last checkpoint.
C9_ReturnsMemory ==
    phase = "DONE" =>
        /\ returned = <<all_issues>>
        /\ \A k \in 1..Len(writes) : IsPrefix(writes[k], returned[1])
        /\ returned[1] = RecordsAt(Kept(AllYielded))

\* records were appended after the last checkpoint
C9_Witness ==
    /\ phase = "DONE"
    /\ disk # <<>>
    /\ Len(returned[1]) > Len(disk[1])
    /\ Len(writes) = 2

\* C10: RUNNING -> (RATE_LIMITED -> SLEEPING -> RUNNING)* -> DONE, or FAILED:
\* a rate-limit event detected in RUNNING is always followed by the
\* checkpoint write, the sleep and a return to RUNNING; DONE is entered only
\* from RUNNING after the last repository.
C10_StateMachine ==
    [][/\ phase = "RUNNING" =>
             phase' \in {"RUNNING", "RATE_LIMITED", "DONE", "FAILED"}
       /\ phase = "RATE_LIMITED" =>
             phase' = "SLEEPING" /\ Len(writes') = Len(writes) + 1
       /\ phase = "SLEEPING" => phase' = "RUNNING"
       /\ phase' = "DONE" =>
             phase = "RUNNING" /\ r = Len(gh_repos)
       /\ phase \notin {"DONE", "FAILED"}]_vars

\* C11: the collection is append-only: empty at the start, and across every
\* step the collection before is a prefix of the collection after; the
\* rate-limit handling and the sleep leave it unchanged.
C11_AppendOnly ==
    /\ all_issues = <<>>
    /\ [][IsPrefix(all_issues, all_issues')]_vars
    /\ [][phase # "RUNNING" => all_issues' = all_issues]_vars
    /\ [][all_issues' # all_issues => Len(all_issues') = Len(all_issues) + 1]_vars

\* records of an earlier repository and of the interrupted one are still
\* there after a rate-limit event in the second repository
C11_Witness ==
    /\ phase = "RUNNING" /\ loc = "iterate"
    /\ r = 2 /\ <<2, 1>> \in throttled
    /\ Len(all_issues) >= 2
    /\ origin[1][1] = 1 /\ origin[Len(origin)] = <<2, 0>>

\* C12: within one uninterrupted run segment (from the start or a resume to
\* the next rate-limit event or the end) the comments of an issue at a given
\* repository-list position are requested at most once.
C12_OncePerSegment ==
    \A a, b \in 1..Len(segment) : a # b => segment[a] # segment[b]

\* a segment after a resume with requests in two repositories
C12_Witness ==
    /\ throttled # {}
    /\ Len(segment) >= 3
    /\ segment[1][1] = 1 /\ segment[Len(segment)][1] = 2

\* C13: when --ds_path is supplied, the checkpoints written on rate-limit
\* events go to that path; the fixed default path is used only when no path
\* is supplied.
C13_CheckpointAtSuppliedPath ==
    /\ args.ds_path # <<>> => saved_at \subseteq {args.ds_path[1]}
    /\ "./hf_repo_issues" \in saved_at => args.ds_path = <<>>

\* C14: when the organization, the repository list or the token is missing
\* from the configuration, the run ends with a configuration error before
\* any call to the remote API is made.
C14_ConfigErrorBeforeNetwork ==
    (args.org = <<>> \/ args.repos = <<>> \/ args.gh_token = <<>>) =>
        /\ ~api_called
        /\ phase \in {"RUNNING", "FAILED"}
        /\ phase = "FAILED" =>
              error \in {"TypeError", "AssertionError", "ConfigurationError"}

\* C15: the comments field of a record is the bodies of the issue's comments,
\* in the order yielded, joined with <|||||>: "" for no comment, the body
\* alone for one comment, "a<|||||>b" for the comments a and b.
C15_CommentsJoined ==
    \A k \in 1..Len(all_issues) :
        LET bodies == CommentBodies(gh_repos[origin[k][1]], origin[k][2])
            joined == all_issues[k].comments
        IN  /\ bodies = <<>> => joined = ""
            /\ Len(bodies) = 1 => joined = bodies[1]
            /\ bodies = <<"a", "b">> => joined = "a<|||||>b"
            /\ bodies = <<"a", "b", "c">> => joined = "a<|||||>b<|||||>c"
            /\ Len(bodies) <= 3

\* records of issues with no comment, one comment and the comments a, b
C15_Witness ==
    /\ Len(all_issues) >= 3
    /\ all_issues[1].comments = ""
    /\ all_issues[2].comments = "a"
    /\ all_issues[3].comments = "a<|||||>b"

C18_Terminates ==
    /\ <>(phase \in {"DONE", "FAILED"})
    /\ [](Len(writes) <= TotalIssues /\ Cardinality(throttled) <= TotalIssues)

\* every comment fetch of the run was rate limited, and the run is done
C18_Witness ==
    /\ phase = "DONE"
    /\ TotalIssues >= 3
    /\ Len(writes) = TotalIssues
    /\ all_issues = <<>>

=============================================================================
